------------------------------ MODULE Spec2Model ------------------------------
(***************************************************************************)
(* Edu4.AI backend: the content safety scorer (SafetyService), the         *)
(* provider orchestration (AIService.generateResponse) and the chat        *)
(* request handlers (ChatController) over the message store.               *)
(*                                                                         *)
(* Text is a sequence of UTF-16 code units, each written as a one-         *)
(* character string (code units outside ASCII are written "U+XXXX").       *)
(* Scores are IEEE doubles in the source; here a score is an integer       *)
(* number of ten-thousandths (1.0 is 10000), and a double that lies just   *)
(* below a decimal d is written d - 1 (see FloatSub).                      *)
(***************************************************************************)
EXTENDS Integers, Sequences, FiniteSets, TLC

-------------------------------------------------------------------------------
(* String primitives of the JavaScript runtime, as the source uses them.   *)

UpperCase == <<"A","B","C","D","E","F","G","H","I","J","K","L","M",
               "N","O","P","Q","R","S","T","U","V","W","X","Y","Z">>
LowerCase == <<"a","b","c","d","e","f","g","h","i","j","k","l","m",
               "n","o","p","q","r","s","t","u","v","w","x","y","z">>
Digits == {"0","1","2","3","4","5","6","7","8","9"}
WhiteSpace == {" ", "\t", "\n", "\r"}
LineTerminators == {"\n", "\r"}

Range(f) == {f[i] : i \in DOMAIN f}

UpperToLower ==
  [c \in Range(UpperCase) |->
     LowerCase[CHOOSE k \in DOMAIN UpperCase : UpperCase[k] = c]]

\* String.prototype.toLowerCase on one code unit
LowerChar(c) == IF c \in DOMAIN UpperToLower THEN UpperToLower[c] ELSE c

\* String.prototype.toLowerCase
\* variant: the text is compared as written, its case kept
keepCase(content) == content

toLowerCase(content) ==
  SubSeq([k \in 1..Len(content) |-> LowerChar(content[k])], 1, Len(content))

\* String.prototype.includes: keyword occurs as a contiguous substring
includes(content, keyword) ==
  \/ Len(keyword) = 0
  \/ \E p \in 1..(Len(content) - Len(keyword) + 1) :
       /\ content[p] = keyword[1]
       /\ \A j \in 2..Len(keyword) : content[p + j - 1] = keyword[j]

\* Array.prototype.join(', ')
RECURSIVE join(_)
join(xs) ==
  IF Len(xs) = 0 THEN <<>>
  ELSE IF Len(xs) = 1 THEN xs[1]
  ELSE xs[1] \o <<",", " ">> \o join(Tail(xs))

-------------------------------------------------------------------------------
(* Regular expressions: the constructs the source's patterns use.  A node  *)
(* is matched from a set of start positions and yields the set of          *)
(* positions where a match of it can end.                                  *)

Lit(w)  == [t |-> "lit", w |-> w]
Star(c) == [t |-> "star", c |-> c]
Plus(c) == [t |-> "plus", c |-> c]
Opt(c)  == [t |-> "opt", c |-> c]
Cat(rs) == [t |-> "cat", rs |-> rs]
Alt(rs) == [t |-> "alt", rs |-> rs]
WordB   == [t |-> "wordb"]
Bol     == [t |-> "bol"]
Eol     == [t |-> "eol"]

\* character classes: \s, \d and the dot
InClass(c, ch) ==
  CASE c = "s" -> ch \in WhiteSpace
    [] c = "d" -> ch \in Digits
    [] c = "." -> ch \notin LineTerminators

\* \w
WordChars == Digits \cup {"_"} \cup Range(LowerCase) \cup Range(UpperCase)
IsWordChar(ch) == ch \in WordChars

\* the first position at or after p whose character is not in class c
RunEnd(c, s, p) ==
  LET stops == {q \in p..Len(s) : ~InClass(c, s[q])}
  IN  IF stops = {} THEN Len(s) + 1
      ELSE CHOOSE q \in stops : \A q2 \in stops : q <= q2

AtWordBoundary(s, p) ==
  LET before == p > 1 /\ IsWordChar(s[p - 1])
      after  == p <= Len(s) /\ IsWordChar(s[p])
  IN  before # after

RECURSIVE Ends(_, _, _, _, _)
Ends(r, s, P, i, m) ==
  CASE r.t = "lit" ->
         {p + Len(r.w) : p \in
            {q \in P : /\ q + Len(r.w) - 1 <= Len(s)
                       /\ \A j \in 1..Len(r.w) :
                            IF i THEN LowerChar(s[q + j - 1]) = LowerChar(r.w[j])
                                 ELSE s[q + j - 1] = r.w[j]}}
    [] r.t = "star" -> UNION {p..RunEnd(r.c, s, p) : p \in P}
    [] r.t = "plus" ->
         UNION {(p + 1)..RunEnd(r.c, s, p) : p \in P}
    [] r.t = "opt" ->
         P \cup {p + 1 : p \in {q \in P : q <= Len(s) /\ InClass(r.c, s[q])}}
    [] r.t = "wordb" -> {p \in P : AtWordBoundary(s, p)}
    [] r.t = "bol" ->
         {p \in P : p = 1 \/ (m /\ s[p - 1] \in LineTerminators)}
    [] r.t = "eol" ->
         {p \in P : p = Len(s) + 1 \/ (m /\ s[p] \in LineTerminators)}
    [] r.t = "alt" -> UNION {Ends(r.rs[k], s, P, i, m) : k \in 1..Len(r.rs)}
    [] r.t = "cat" ->
         IF Len(r.rs) = 0 THEN P
         ELSE Ends(Cat(Tail(r.rs)), s, Ends(Head(r.rs), s, P, i, m), i, m)

\* RegExp.prototype.test (no g flag: a match may start anywhere)
test(pattern, s) ==
  Ends(pattern.re, s, 1..(Len(s) + 1), pattern.i, pattern.m) # {}

-------------------------------------------------------------------------------
(* Word lists and patterns of SafetyService; texts of AIService           *)

MaxContentLength == 2000

educationalKeywords ==
  <<
    <<"l","e","a","r","n">>, <<"s","t","u","d","y">>,
    <<"u","n","d","e","r","s","t","a","n","d">>, <<"e","x","p","l","a","i","n">>,
    <<"h","o","w">>, <<"w","h","y">>, <<"w","h","a","t">>, <<"s","o","l","v","e">>,
    <<"c","a","l","c","u","l","a","t","e">>, <<"d","e","f","i","n","e">>,
    <<"d","e","s","c","r","i","b","e">>, <<"a","n","a","l","y","z","e">>,
    <<"c","o","m","p","a","r","e">>, <<"e","x","a","m","p","l","e">>,
    <<"c","o","n","c","e","p","t">>, <<"t","h","e","o","r","y">>,
    <<"p","r","a","c","t","i","c","e">>, <<"h","o","m","e","w","o","r","k">>,
    <<"a","s","s","i","g","n","m","e","n","t">>, <<"q","u","e","s","t","i","o","n">>,
    <<"p","r","o","b","l","e","m">>, <<"f","o","r","m","u","l","a">>,
    <<"e","q","u","a","t","i","o","n">>, <<"m","e","t","h","o","d">>,
    <<"s","t","e","p">>
  >>

subjectIndicators ==
  <<
    <<"e","q","u","a","t","i","o","n">>, <<"s","o","l","v","e">>,
    <<"c","a","l","c","u","l","a","t","e">>,
    <<"m","a","t","h","e","m","a","t","i","c","s">>, <<"a","l","g","e","b","r","a">>,
    <<"g","e","o","m","e","t","r","y">>, <<"c","a","l","c","u","l","u","s">>,
    <<"s","t","a","t","i","s","t","i","c","s">>,
    <<"p","r","o","b","a","b","i","l","i","t","y">>, <<"t","h","e","o","r","e","m">>,
    <<"p","r","o","o","f">>, <<"e","x","p","e","r","i","m","e","n","t">>,
    <<"h","y","p","o","t","h","e","s","i","s">>, <<"t","h","e","o","r","y">>,
    <<"m","o","l","e","c","u","l","e">>, <<"a","t","o","m">>,
    <<"c","h","e","m","i","s","t","r","y">>, <<"p","h","y","s","i","c","s">>,
    <<"b","i","o","l","o","g","y">>, <<"e","v","o","l","u","t","i","o","n">>,
    <<"e","c","o","s","y","s","t","e","m">>, <<"c","e","l","l">>, <<"D","N","A">>,
    <<"g","r","a","m","m","a","r">>, <<"s","e","n","t","e","n","c","e">>,
    <<"p","a","r","a","g","r","a","p","h">>, <<"e","s","s","a","y">>,
    <<"l","i","t","e","r","a","t","u","r","e">>, <<"p","o","e","m">>,
    <<"m","e","t","a","p","h","o","r">>, <<"s","y","m","b","o","l","i","s","m">>,
    <<"c","h","a","r","a","c","t","e","r">>, <<"p","l","o","t">>,
    <<"t","h","e","m","e">>, <<"h","i","s","t","o","r","i","c","a","l">>,
    <<"c","e","n","t","u","r","y">>, <<"w","a","r">>,
    <<"r","e","v","o","l","u","t","i","o","n">>,
    <<"c","i","v","i","l","i","z","a","t","i","o","n">>, <<"c","u","l","t","u","r","e">>,
    <<"e","m","p","i","r","e">>, <<"d","e","m","o","c","r","a","c","y">>,
    <<"c","o","n","s","t","i","t","u","t","i","o","n">>, <<"c","o","d","e">>,
    <<"f","u","n","c","t","i","o","n">>, <<"v","a","r","i","a","b","l","e">>,
    <<"a","l","g","o","r","i","t","h","m">>,
    <<"p","r","o","g","r","a","m","m","i","n","g">>, <<"s","o","f","t","w","a","r","e">>,
    <<"d","e","b","u","g">>, <<"s","y","n","t","a","x">>, <<"l","o","o","p">>,
    <<"a","r","r","a","y">>, <<"o","b","j","e","c","t">>
  >>

ConfigBlockedKeywords ==
  <<
    <<"i","n","a","p","p","r","o","p","r","i","a","t","e">>,
    <<"h","a","r","m","f","u","l">>, <<"d","a","n","g","e","r","o","u","s">>
  >>

ConfigEducationalTopics ==
  <<
    <<"m","a","t","h">>, <<"s","c","i","e","n","c","e">>,
    <<"l","i","t","e","r","a","t","u","r","e">>, <<"h","i","s","t","o","r","y">>,
    <<"p","r","o","g","r","a","m","m","i","n","g">>, <<"l","a","n","g","u","a","g","e">>
  >>

homeworkPatterns ==
  <<
    [i |-> TRUE, m |-> FALSE, re |->
      Cat(<<Bol, Lit(<<"s","o","l","v","e">>), Plus("s"), Lit(<<"t","h","i","s">>)>>)],
    [i |-> TRUE, m |-> FALSE, re |->
      Cat(<<Bol, Lit(<<"a","n","s","w","e","r">>), Plus("s"), Lit(<<"t","h","i","s">>)>>)],
    [i |-> TRUE, m |-> FALSE, re |->
      Cat(<<Bol, Lit(<<"w","h","a","t">>), Plus("s"), Lit(<<"i","s">>), Plus("s"), Lit(<<"t","h","e">>), Plus("s"), Lit(<<"a","n","s","w","e","r">>), Plus("s"), Lit(<<"t","o">>)>>)],
    [i |-> TRUE, m |-> FALSE, re |->
      Cat(<<Bol, Lit(<<"d","o">>), Plus("s"), Lit(<<"m","y">>), Plus("s"), Lit(<<"h","o","m","e","w","o","r","k">>)>>)],
    [i |-> TRUE, m |-> FALSE, re |->
      Cat(<<Bol, Lit(<<"c","o","m","p","l","e","t","e">>), Plus("s"), Lit(<<"t","h","i","s">>), Plus("s"), Lit(<<"f","o","r">>), Plus("s"), Lit(<<"m","e">>)>>)],
    [i |-> TRUE, m |-> FALSE, re |->
      Cat(<<Bol, Lit(<<"g","i","v","e">>), Plus("s"), Lit(<<"m","e">>), Plus("s"), Lit(<<"t","h","e">>), Plus("s"), Lit(<<"s","o","l","u","t","i","o","n">>)>>)],
    [i |-> FALSE, m |-> TRUE, re |->
      Cat(<<Bol, Plus("d"), Lit(<<".">>), Star("s"), Star("."), Lit(<<"?">>), Star("s"), Eol>>)],
    [i |-> TRUE, m |-> FALSE, re |->
      Cat(<<Lit(<<"c","h","a","p","t","e","r">>), Plus("s"), Plus("d"), Star("."), Lit(<<"e","x","e","r","c","i","s","e">>)>>)],
    [i |-> TRUE, m |-> FALSE, re |->
      Cat(<<Lit(<<"a","s","s","i","g","n","m","e","n","t">>), Plus("s"), Plus("d")>>)],
    [i |-> TRUE, m |-> FALSE, re |->
      Cat(<<Lit(<<"d","u","e">>), Plus("s"), Lit(<<"t","o","m","o","r","r","o","w">>)>>)],
    [i |-> TRUE, m |-> FALSE, re |->
      Cat(<<Lit(<<"t","e","s","t">>), Plus("s"), Lit(<<"t","o","m","o","r","r","o","w">>)>>)]
  >>

dangerousPatterns ==
  <<
    [i |-> TRUE, m |-> FALSE, re |->
      Cat(<<WordB, Alt(<<
        Lit(<<"k","i","l","l">>),
        Lit(<<"m","u","r","d","e","r">>),
        Lit(<<"s","u","i","c","i","d","e">>),
        Cat(<<Lit(<<"s","e","l","f">>), Opt("."), Lit(<<"h","a","r","m">>)>>),
        Cat(<<Lit(<<"h","u","r","t">>), Star("."), Lit(<<"y","o","u","r","s","e","l","f">>)>>)>>), WordB>>)],
    [i |-> TRUE, m |-> FALSE, re |->
      Cat(<<WordB, Alt(<<
        Lit(<<"b","o","m","b">>),
        Lit(<<"e","x","p","l","o","s","i","v","e">>),
        Lit(<<"w","e","a","p","o","n">>),
        Lit(<<"g","u","n">>),
        Lit(<<"k","n","i","f","e">>)>>), WordB>>)],
    [i |-> TRUE, m |-> FALSE, re |->
      Cat(<<WordB, Alt(<<
        Lit(<<"d","r","u","g","s">>),
        Cat(<<Lit(<<"i","l","l","e","g","a","l">>), Star("."), Lit(<<"s","u","b","s","t","a","n","c","e">>)>>),
        Lit(<<"s","t","e","a","l">>),
        Lit(<<"r","o","b">>),
        Lit(<<"f","r","a","u","d">>)>>), WordB>>)],
    [i |-> TRUE, m |-> FALSE, re |->
      Cat(<<WordB, Alt(<<
        Lit(<<"h","a","c","k">>),
        Lit(<<"c","r","a","c","k">>),
        Lit(<<"p","i","r","a","t","e">>),
        Cat(<<Lit(<<"b","y","p","a","s","s">>), Star("."), Lit(<<"s","e","c","u","r","i","t","y">>)>>)>>), WordB>>)],
    [i |-> TRUE, m |-> FALSE, re |->
      Cat(<<WordB, Alt(<<
        Cat(<<Lit(<<"a","d","u","l","t">>), Star("."), Lit(<<"c","o","n","t","e","n","t">>)>>),
        Lit(<<"s","e","x","u","a","l">>),
        Lit(<<"e","x","p","l","i","c","i","t">>)>>), WordB>>)],
    [i |-> TRUE, m |-> FALSE, re |->
      Cat(<<WordB, Alt(<<
        Cat(<<Lit(<<"h","o","m","e">>), Star("."), Lit(<<"a","d","d","r","e","s","s">>)>>),
        Cat(<<Lit(<<"p","h","o","n","e">>), Star("."), Lit(<<"n","u","m","b","e","r">>)>>),
        Cat(<<Lit(<<"s","o","c","i","a","l">>), Star("."), Lit(<<"s","e","c","u","r","i","t","y">>)>>),
        Cat(<<Lit(<<"c","r","e","d","i","t">>), Star("."), Lit(<<"c","a","r","d">>)>>)>>), WordB>>)]
  >>

LearningTip ==
  <<"\n","\n","U+F8FF","U+00FC","U+00ED","U+00B0">> \o
  <<" ","*","*","L","e","a","r","n","i","n","g"," ","T","i","p","*","*",":"," ","T","a","k","e"," ","y","o","u","r"," ","t","i","m","e"," ","t","o"," ","u","n","d","e","r","s","t","a","n","d"," ","e","a","c","h"," ","c","o","n","c","e","p","t"," ","b","e","f","o","r","e"," ","m","o","v","i","n","g"," ","t","o"," ","t","h","e"," ","n","e","x","t"," ","o","n","e","."," ","F","e","e","l"," ","f","r","e","e"," ","t","o"," ","a","s","k"," ","f","o","l","l","o","w","-","u","p"," ","q","u","e","s","t","i","o","n","s"," ","i","f"," ","a","n","y","t","h","i","n","g"," ","i","s"," ","u","n","c","l","e","a","r","!">>

StudySuggestion ==
  <<"\n","\n","U+F8FF","U+00FC","U+00EE","U+00E7">> \o
  <<" ","*","*","S","t","u","d","y"," ","S","u","g","g","e","s","t","i","o","n","*","*",":"," ","T","r","y"," ","w","o","r","k","i","n","g"," ","t","h","r","o","u","g","h"," ","t","h","i","s"," ","e","x","a","m","p","l","e"," ","s","t","e","p"," ","b","y"," ","s","t","e","p","."," ","U","n","d","e","r","s","t","a","n","d","i","n","g"," ","t","h","e"," ","p","r","o","c","e","s","s"," ","i","s"," ","m","o","r","e"," ","i","m","p","o","r","t","a","n","t"," ","t","h","a","n"," ","m","e","m","o","r","i","z","i","n","g"," ","t","h","e"," ","r","e","s","u","l","t",".">>

-------------------------------------------------------------------------------
(* Configuration (config.ts), loaded once from the environment.             *)

Providers == {"openai", "anthropic", "google"}

\* Number.NaN, kept apart from every number the model computes
NaN == -999999

\* one score unit is 1/10000, so n/100 is n * 100 units
One == 10000

RECURSIVE DigitsValue(_, _)
DigitsValue(s, acc) ==
  IF Len(s) = 0 \/ Head(s) \notin Digits THEN acc
  ELSE DigitsValue(Tail(s),
         acc * 10 + (CHOOSE d \in 0..9 : <<"0","1","2","3","4","5","6","7","8","9">>[d + 1] = Head(s)))

RECURSIVE TrimStart(_)
TrimStart(s) ==
  IF Len(s) > 0 /\ Head(s) \in WhiteSpace THEN TrimStart(Tail(s)) ELSE s

\* parseInt(value, 10): leading white space, an optional sign, then the longest
\* run of decimal digits; NaN when there is no digit
parseInt(value) ==
  LET t    == TrimStart(value)
      neg  == Len(t) > 0 /\ Head(t) = "-"
      body == IF Len(t) > 0 /\ Head(t) \in {"-", "+"} THEN Tail(t) ELSE t
  IN  IF Len(body) = 0 \/ Head(body) \notin Digits THEN NaN
      ELSE IF neg THEN 0 - DigitsValue(body, 0) ELSE DigitsValue(body, 0)

\* getEnvVar: an unset or empty variable takes the default
getEnvVar(value, defaultValue) == IF value = "" THEN defaultValue ELSE value

\* getEnvNumber: an unset or empty variable takes the default
getEnvNumber(value, defaultValue) ==
  IF Len(value) = 0 THEN defaultValue ELSE parseInt(value)

\* getEnvNumber('MIN_SAFETY_SCORE', 70) / 100, in score units
minSafetyScoreOf(value) ==
  LET n == getEnvNumber(value, 70)
  IN  IF n = NaN THEN NaN ELSE n * (One \div 100)

\* the config object built from the environment env
LoadConfig(env) ==
  [ defaultAiProvider |-> getEnvVar(env.DEFAULT_AI_PROVIDER, "openai"),
    minSafetyScore    |-> minSafetyScoreOf(env.MIN_SAFETY_SCORE),
    apiKeys           |-> env.apiKeys ]

-------------------------------------------------------------------------------
(* SafetyService                                                           *)

\* the constructor lower-cases the configured lists
blockedKeywords ==
  [k \in DOMAIN ConfigBlockedKeywords |-> toLowerCase(ConfigBlockedKeywords[k])]
educationalTopics ==
  [k \in DOMAIN ConfigEducationalTopics |-> toLowerCase(ConfigEducationalTopics[k])]

RECURSIVE findFrom(_, _)
findFrom(content, keywords) ==
  IF Len(keywords) = 0 THEN <<>>
  ELSE (IF includes(content, Head(keywords)) THEN <<Head(keywords)>> ELSE <<>>)
         \o findFrom(content, Tail(keywords))

findBlockedKeywords(content) == findFrom(content, blockedKeywords)

\* variant: every text passes for educational
alwaysEducational(content) == TRUE

isEducationalContent(content) ==
  LET hasEducationalKeywords ==
        \E k \in DOMAIN educationalKeywords : includes(content, educationalKeywords[k])
      hasEducationalTopics ==
        \E k \in DOMAIN educationalTopics : includes(content, educationalTopics[k])
      hasSubjectIndicators ==
        \E k \in DOMAIN subjectIndicators : includes(content, subjectIndicators[k])
  IN  hasEducationalKeywords \/ hasEducationalTopics \/ hasSubjectIndicators

detectHomeworkPattern(content) ==
  \E k \in DOMAIN homeworkPatterns : test(homeworkPatterns[k], content)

detectDangerousContent(content) ==
  \E k \in DOMAIN dangerousPatterns : test(dangerousPatterns[k], content)

\* the four text scans validateContent makes
ContentScan(content) ==
  LET contentLower == toLowerCase(content)
  IN  [ foundBlockedKeywords |-> findBlockedKeywords(contentLower),
        isEducational        |-> isEducationalContent(contentLower),
        isHomeworkPattern    |-> detectHomeworkPattern(content),
        hasDangerousContent  |-> detectDangerousContent(contentLower) ]

-------------------------------------------------------------------------------
(* Texts the model draws its inputs from                                   *)

\* a record with no fields: a value that is not there (undefined)
NoFields == [x \in {} |-> x]

\* at most this many fragments are concatenated into an input text
MaxFragments == 2

Filler(n) == SubSeq([k \in 1..n |-> "."], 1, n)

Fragments ==
  { <<"h","a","r","m","f","u","l">>,
    <<"H","a","R","m","F","u","L">>,
    <<"e","x","p","l","a","i","n"," ">>,
    <<"m","a","t","h">>,
    <<"k","i","l","l">>,
    <<"s">>,
    <<"d","u","e"," ","t","o","m","o","r","r","o","w">>,
    <<"1","."," ","x","?">>,
    <<" ">>,
    <<"D","N","A">>,
    <<"\n">> }

RECURSIVE Compose(_)
Compose(n) ==
  IF n = 0 THEN {<<>>}
  ELSE Compose(n - 1) \cup {t \o f : t \in Compose(n - 1), f \in Fragments}

\* a fragment filled up to a given length
PadTo(t, n) == t \o Filler(n - Len(t))

LongFragments ==
  { <<>>,
    <<"H","a","R","m","F","u","L">>,
    <<"e","x","p","l","a","i","n"," ">>,
    <<"k","i","l","l">>,
    <<"d","u","e"," ","t","o","m","o","r","r","o","w">> }

\* the inputs of validateContent: short texts, and texts at the length limit
\* and one past it
Texts ==
  Compose(MaxFragments)
    \cup {PadTo(f, n) : f \in LongFragments,
                        n \in {MaxContentLength, MaxContentLength + 1}}

\* chat messages a client sends
MsgValid    == <<"e","x","p","l","a","i","n"," ","m","a","t","h">>
MsgHomework == <<"d","o"," ","m","y"," ","h","o","m","e","w","o","r","k">>
MsgEmpty    == <<>>
MsgTooLong  == PadTo(MsgValid, MaxContentLength + 1)
Messages    == {MsgValid, MsgHomework, MsgEmpty, MsgTooLong}

\* texts a provider generates
ReplyValid    == <<"s","t","u","d","y"," ","m","a","t","h">>
ReplyOffTopic == <<"o","k">>
ReplyCode     == <<"U+0060","U+0060","U+0060","x","U+0060","U+0060","U+0060">>
ReplyLong     == PadTo(<<"l","e","a","r","n"," ">>, 1900)
Replies       == {ReplyValid, ReplyOffTopic, ReplyCode, ReplyLong}

-------------------------------------------------------------------------------
(* AIService.applyEducationalContext                                       *)

applyEducationalContext(content) ==
  LET withTip ==
        IF Len(content) > 1000 THEN content \o LearningTip ELSE content
  IN  IF includes(withTip, <<"U+0060","U+0060","U+0060">>) \/ includes(withTip, <<"$","$">>)
        THEN withTip \o StudySuggestion
        ELSE withTip

\* the scans of every text of the model, computed once
ScanTable ==
  [c \in Texts \cup Messages \cup Replies
           \cup {applyEducationalContext(x) : x \in Replies} |-> ContentScan(c)]

Scanned(content) ==
  IF content \in DOMAIN ScanTable THEN ScanTable[content] ELSE ContentScan(content)

\* IEEE double subtraction a - b on the scores that occur.  The result is the
\* double nearest the decimal a - b, except for the four pairs below, where it
\* is the next double below it (1.0 - 0.8 = 0.19999999999999996,
\* 0.9 - 0.8 = 0.09999999999999998, 0.7 - 0.2 = 0.49999999999999994,
\* 0.6 - 0.2 = 0.39999999999999997).
FloatSub(a, b) ==
  IF <<a, b>> \in {<<10000, 8000>>, <<9000, 8000>>, <<7000, 2000>>, <<6000, 2000>>}
    THEN a - b - 1
    ELSE a - b

Max(a, b) == IF a >= b THEN a ELSE b

\* variant: the comparison is strict
strictlyGreater(a, b) == a # NaN /\ b # NaN /\ a > b

\* a >= b on doubles: false when either side is NaN
GreaterEq(a, b) == a # NaN /\ b # NaN /\ a >= b

Issue(text, arg) == [text |-> text, arg |-> arg]


\* variant: the limit itself already counts as too long
reachesLength(content) == Len(content) >= MaxContentLength

\* if (content.length > 2000)
exceedsLength(content) == Len(content) > MaxContentLength

validateContentWith(content, scan, minSafetyScore) ==
  LET blocked   == Len(scan.foundBlockedKeywords) > 0
      tooLong   == exceedsLength(content)
      s1 == IF blocked THEN FloatSub(One, 5000) ELSE One
      s2 == IF ~scan.isEducational THEN FloatSub(s1, 3000) ELSE s1
      s3 == IF tooLong THEN FloatSub(s2, 1000) ELSE s2
      s4 == IF scan.isHomeworkPattern THEN FloatSub(s3, 2000) ELSE s3
      s5 == IF scan.hasDangerousContent THEN FloatSub(s4, 8000) ELSE s4
      issues ==
        (IF blocked
           THEN <<Issue("Contains inappropriate content: ", join(scan.foundBlockedKeywords))>>
           ELSE <<>>)
        \o (IF ~scan.isEducational
              THEN <<Issue("Content does not appear to be educational", <<>>)>> ELSE <<>>)
        \o (IF tooLong THEN <<Issue("Content is too long", <<>>)>> ELSE <<>>)
        \o (IF scan.isHomeworkPattern
              THEN <<Issue("This appears to be a homework question", <<>>)>> ELSE <<>>)
        \o (IF scan.hasDangerousContent
              THEN <<Issue("Content may be harmful or dangerous", <<>>)>> ELSE <<>>)
      suggestions ==
        (IF blocked
           THEN <<"Please rephrase your question focusing on educational content.">>
           ELSE <<>>)
        \o (IF ~scan.isEducational
              THEN <<"Please ask questions related to academic subjects like math, science, literature, or other learning topics.">>
              ELSE <<>>)
        \o (IF tooLong
              THEN <<"Please shorten your question to be more specific.">> ELSE <<>>)
        \o (IF scan.isHomeworkPattern
              THEN <<"Instead of asking for the answer, ask how to approach the problem or explain concepts you need help understanding.">>
              ELSE <<>>)
        \o (IF scan.hasDangerousContent
              THEN <<"Please focus on safe, educational topics.">> ELSE <<>>)
      safetyScore == Max(0, s5)
      isValid == GreaterEq(safetyScore, minSafetyScore) /\ Len(issues) = 0
  IN  [ isValid |-> isValid, safetyScore |-> safetyScore ]
      @@ (IF Len(issues) > 0 THEN [issues |-> issues] ELSE NoFields)
      @@ (IF Len(suggestions) > 0 THEN [suggestions |-> suggestions] ELSE NoFields)

-------------------------------------------------------------------------------
(* State                                                                   *)

VARIABLES
  config,    \* the configuration loaded at startup
  sessions,  \* ids of the stored ChatSession rows
  messages,  \* the stored Message rows, in order of creation
  created,   \* number of Message rows ever created
  chat,      \* the chat request being served (sendMessage or generateResponse)
  served,    \* number of chat requests begun
  val,       \* a call of validateContent: its input and its result
  server,    \* the process: its startup, its services, its exit
  clear,     \* the clearChatHistory request being served
  ui,        \* the chat interface of the frontend
  history    \* the getChatHistory request being served

vars == <<config, sessions, messages, created, chat, served, val, server, clear, ui,
          history>>

\* SafetyService.validateContent
validateContent(content) ==
  validateContentWith(content, Scanned(content), config.minSafetyScore)

-------------------------------------------------------------------------------
(* Bounds and inputs of the chat requests                                  *)

\* chat requests served in one run, one after another
MaxChatRequests == 2
\* nesting of generateResponse calls the model follows
MaxDepth == 3

\* session ids a client may name
SessionIds == {1, 2}

\* uuidv4(): an id no client names and no other request draws
UuidBase == 100
uuidv4(n) == UuidBase + n

\* request bodies of POST /chat; sessionId 0 and provider "" are omitted fields,
\* "azure" is a provider name outside the schema's enum
ChatBodies ==
  [ message : Messages, sessionId : {0} \cup SessionIds,
    provider : {"", "azure"} \cup Providers ]

\* arguments of a direct generateResponse call
AIRequests == [ message : Messages, provider : {""} \cup Providers ]

\* no request is being served
IdleChat ==
  [ pc |-> "idle", entry |-> "", message |-> <<>>, sessionId |-> 0,
    provider |-> "", currentSessionId |-> 0,
    frameProvider |-> "", activeProvider |-> "", depth |-> 0,
    attempts |-> <<>>, inflight |-> 0, sdkCalls |-> 0, generated |-> <<>>,
    caught |-> <<>>,
    aiResponse |-> NoFields, error |-> "", writes |-> 0, res |-> NoFields ]

-------------------------------------------------------------------------------
(* ChatController.sendMessage and AIService.generateResponse               *)

\* chatRequestSchema.parse: message of 1..2000 characters, provider of the enum
chatRequestSchemaOK(body) ==
  /\ Len(body.message) >= 1
  /\ Len(body.message) <= 2000
  /\ body.provider \in {""} \cup Providers

\* variant: sendMessage lets every message through
neverBlocked(safetyValidation) == FALSE

\* if (!safetyValidation.isValid) in sendMessage
messageBlocked(safetyValidation) == ~safetyValidation.isValid

\* if (!safetyCheck.isValid) in generateResponse
inputBlocked(safetyCheck) == ~safetyCheck.isValid

\* if (!responseSafetyCheck.isValid) in generateResponse
responseRejected(responseSafetyCheck) == ~responseSafetyCheck.isValid

\* variants: the catch block retries whatever the provider, or never
alwaysFallback(provider, defaultAiProvider) == TRUE
neverFallback(provider, defaultAiProvider) == FALSE

\* if (provider !== config.defaultAiProvider) in the catch block
shouldFallback(provider, defaultAiProvider) == provider # defaultAiProvider

\* variant: the relation is not enforced
noForeignKey(sessionId) == TRUE

\* the session row a Message row refers to must exist (foreign key)
ForeignKeyOK(sessionId) == sessionId \in sessions

\* optional fields of a validation, copied into a response body
OptionalFields(v) ==
  (IF "issues" \in DOMAIN v THEN [issues |-> v.issues] ELSE NoFields)
  @@ (IF "suggestions" \in DOMAIN v THEN [suggestions |-> v.suggestions] ELSE NoFields)

\* the catch block of sendMessage answers an error that is no ZodError
InternalError(c, err) ==
  [c EXCEPT !.pc = "done", !.error = err,
            !.res = [status |-> 500, success |-> FALSE, message |-> err]]

\* an error leaves generateResponse: sendMessage's catch block answers 500, a
\* direct caller sees the rejection
Thrown(c, err) ==
  IF c.entry = "sendMessage"
    THEN InternalError(c, err)
    ELSE [c EXCEPT !.pc = "done", !.error = err,
                   !.res = [status |-> 0, success |-> FALSE, message |-> err]]

\* an error thrown inside the try block of generateResponse reaches its catch
Caught(c, err) ==
  [c EXCEPT !.pc = "catch", !.error = err,
            !.caught = Append(c.caught, [attempt |-> Len(c.attempts), error |-> err])]

\* generateResponse returns response
Returned(c, response) ==
  IF c.entry = "sendMessage"
    THEN [c EXCEPT !.pc = "storeAssistant", !.aiResponse = response]
    ELSE [c EXCEPT !.pc = "done", !.aiResponse = response,
                   !.res = [status |-> 0, success |-> TRUE, response |-> response]]

\* sendMessage from its entry to the first await: the body is parsed and the
\* message validated
sendMessageBegins(body) ==
  /\ chat.pc = "idle"
  /\ served < MaxChatRequests
  /\ served' = served + 1
  /\ LET c == [chat EXCEPT !.entry = "sendMessage", !.message = body.message,
                           !.sessionId = body.sessionId, !.provider = body.provider]
         currentSessionId ==
           IF body.sessionId # 0 THEN body.sessionId ELSE uuidv4(served + 1)
         safetyValidation == validateContent(body.message)
     IN  chat' =
           IF ~chatRequestSchemaOK(body)
             THEN [c EXCEPT !.pc = "done",
                     !.res = [status |-> 400, success |-> FALSE,
                              message |-> "Invalid request data"]]
           ELSE IF messageBlocked(safetyValidation)
             THEN [c EXCEPT !.pc = "done", !.currentSessionId = currentSessionId,
                     !.res = [status |-> 400, success |-> FALSE,
                              message |-> "Message blocked by safety filters",
                              safetyScore |-> safetyValidation.safetyScore]
                             @@ OptionalFields(safetyValidation)]
           ELSE [c EXCEPT !.pc = "storeUser", !.currentSessionId = currentSessionId]

\* POST /chat arrives at the listening server
SendMessage(body) ==
  /\ server.pc = "listening"
  /\ sendMessageBegins(body)
  /\ UNCHANGED <<config, sessions, messages, created, val, server, clear, ui, history>>

\* prisma.message.create of the USER message, then the call of generateResponse
StoreUserMessage ==
  /\ chat.pc = "storeUser"
  /\ IF ForeignKeyOK(chat.currentSessionId)
       THEN /\ messages' = Append(messages,
                 [ id |-> created + 1, sessionId |-> chat.currentSessionId,
                   role |-> "USER", content |-> chat.message,
                   safetyScore |-> validateContent(chat.message).safetyScore,
                   provider |-> "" ])
            /\ created' = created + 1
            /\ chat' = [chat EXCEPT !.pc = "genEnter", !.frameProvider = chat.provider,
                                    !.writes = chat.writes + 1]
       ELSE /\ chat' = InternalError(chat, "Foreign key constraint failed")
            /\ UNCHANGED <<messages, created>>
  /\ UNCHANGED <<config, sessions, served, val, server, clear, ui, history>>

\* aiService.generateResponse called by another caller than sendMessage
CallGenerateResponse(request) ==
  /\ server.pc = "listening"
  /\ chat.pc = "idle"
  /\ served < MaxChatRequests
  /\ served' = served + 1
  /\ chat' = [chat EXCEPT !.pc = "genEnter", !.entry = "generateResponse",
                          !.message = request.message, !.provider = request.provider,
                          !.frameProvider = request.provider]
  /\ UNCHANGED <<config, sessions, messages, created, val, server, clear, ui, history>>

\* generateResponse from its entry to the provider call: the input check, the
\* choice of the provider and the adapter up to its SDK call
GenerateResponse ==
  LET safetyCheck == validateContent(chat.message)
      provider == IF chat.frameProvider # "" THEN chat.frameProvider
                  ELSE config.defaultAiProvider
      tried == [chat EXCEPT !.activeProvider = provider,
                            !.attempts = Append(chat.attempts, provider)]
  IN
  /\ chat.pc = "genEnter"
  /\ chat' =
       IF inputBlocked(safetyCheck)
         THEN Thrown(chat, "Content blocked")
       ELSE IF provider \notin Providers
         THEN Caught(tried, "Unknown AI provider")
       ELSE IF provider \notin config.apiKeys
         THEN Caught(tried, "client not initialized")
       ELSE [tried EXCEPT !.pc = "await", !.inflight = chat.inflight + 1,
                          !.sdkCalls = chat.sdkCalls + 1]
  /\ UNCHANGED <<config, sessions, messages, created, served, val, server, clear, ui, history>>

\* what a provider's SDK call may settle with: the adapter throws (the call is
\* rejected, or its response holds no text), or it returns generated text
Outcomes ==
  {[throws |-> TRUE, content |-> <<>>]}
    \cup {[throws |-> FALSE, content |-> x] : x \in Replies}

\* variant: every adapter names openai
namesOpenAI(content, provider) ==
  [ content |-> content, provider |-> "openai", safetyScore |-> 9 * (One \div 10) ]

\* the AIResponse an adapter returns, content already augmented: its
\* safetyScore is the placeholder 0.9
adapterResponse(content, provider) ==
  [ content |-> content, provider |-> provider, safetyScore |-> 9 * (One \div 10) ]

\* variant: the placeholder is left in place
placeholderKept(response, responseSafetyCheck) == response

\* response.safetyScore = responseSafetyCheck.safetyScore
withSafetyScore(response, responseSafetyCheck) ==
  [response EXCEPT !.safetyScore = responseSafetyCheck.safetyScore]

\* the SDK call settles; on success the adapter builds the response and
\* generateResponse augments and checks it
ProviderSettles(outcome) ==
  LET c == [chat EXCEPT !.inflight = chat.inflight - 1]
      content == applyEducationalContext(outcome.content)
      responseSafetyCheck == validateContent(content)
      response == withSafetyScore(adapterResponse(content, c.activeProvider),
                                  responseSafetyCheck)
      checked == [c EXCEPT !.generated = Append(c.generated,
                     [content |-> content, attempt |-> Len(c.attempts)])]
  IN
  /\ chat.pc = "await"
  /\ chat' =
       IF outcome.throws
         THEN Caught(c, "provider call failed")
       ELSE IF responseRejected(responseSafetyCheck)
         THEN Caught(checked, "Generated response failed safety check")
       ELSE Returned(checked, response)
  /\ UNCHANGED <<config, sessions, messages, created, served, val, server, clear, ui, history>>

\* the catch block of generateResponse
CatchError ==
  /\ chat.pc = "catch"
  /\ IF shouldFallback(chat.activeProvider, config.defaultAiProvider)
       THEN /\ chat.depth < MaxDepth
            /\ chat' = [chat EXCEPT !.pc = "genEnter", !.depth = chat.depth + 1,
                                    !.frameProvider = config.defaultAiProvider]
       ELSE chat' = Thrown(chat, chat.error)
  /\ UNCHANGED <<config, sessions, messages, created, served, val, server, clear, ui, history>>

\* prisma.message.create of the ASSISTANT message
StoreAssistantMessage ==
  /\ chat.pc = "storeAssistant"
  /\ IF ForeignKeyOK(chat.currentSessionId)
       THEN /\ messages' = Append(messages,
                 [ id |-> created + 1, sessionId |-> chat.currentSessionId,
                   role |-> "ASSISTANT", content |-> chat.aiResponse.content,
                   safetyScore |-> chat.aiResponse.safetyScore,
                   provider |-> chat.aiResponse.provider ])
            /\ created' = created + 1
            /\ chat' = [chat EXCEPT !.pc = "upsert", !.writes = chat.writes + 1]
       ELSE /\ chat' = InternalError(chat, "Foreign key constraint failed")
            /\ UNCHANGED <<messages, created>>
  /\ UNCHANGED <<config, sessions, served, val, server, clear, ui, history>>

\* prisma.chatSession.upsert, then the success response
UpsertSession ==
  /\ chat.pc = "upsert"
  /\ sessions' = sessions \cup {chat.currentSessionId}
  /\ chat' = [chat EXCEPT !.pc = "done",
                !.res = [ status |-> 200, success |-> TRUE,
                          content |-> chat.aiResponse.content,
                          metadata |-> [ provider |-> chat.aiResponse.provider,
                                         safetyScore |-> chat.aiResponse.safetyScore ],
                          sessionId |-> chat.currentSessionId ]]
  /\ UNCHANGED <<config, messages, created, served, val, server, clear, ui, history>>

\* the handler has answered and returns: its locals are gone
Finish ==
  /\ chat.pc = "done"
  /\ ui.pc # "awaiting"
  /\ chat' = IdleChat
  /\ UNCHANGED <<config, sessions, messages, created, served, val, server, clear, ui, history>>

-------------------------------------------------------------------------------
(* A call of validateContent on its own                                    *)

Validate ==
  /\ val.pc = "input"
  /\ val' = [val EXCEPT !.pc = "validated", !.result = validateContent(val.input)]
  /\ UNCHANGED <<config, sessions, messages, created, chat, served, server, clear, ui, history>>

-------------------------------------------------------------------------------
(* Application.start and Application.initializeServices                    *)

\* the process once new Application() has returned
Constructed ==
  [ pc |-> "constructed", database |-> FALSE, redis |-> FALSE, error |-> "",
    exited |-> FALSE, exitCode |-> 0, httpClosed |-> FALSE, callbacks |-> <<>> ]

\* the process serving requests
Listening == [Constructed EXCEPT !.pc = "listening", !.database = TRUE, !.redis = TRUE]

\* variant: the failure is logged and startup goes on
failureIgnored(s, service) == [s EXCEPT !.pc = "listening", !.error = service]

\* the catch block of initializeServices: process.exit(1)
initializeServicesFailed(s, service) ==
  [s EXCEPT !.pc = "exited", !.error = service, !.exited = TRUE, !.exitCode = 1]

\* app.start(): initializeServices awaits DatabaseService.connect()
Start ==
  /\ server.pc = "constructed"
  /\ server' = [server EXCEPT !.pc = "database"]
  /\ UNCHANGED <<config, sessions, messages, created, chat, served, val, clear, ui, history>>

\* DatabaseService.connect() settles; on success RedisService.connect() is awaited
DatabaseConnects(ok) ==
  /\ server.pc = "database"
  /\ server' = IF ok THEN [server EXCEPT !.pc = "redis", !.database = TRUE]
               ELSE initializeServicesFailed(server, "database")
  /\ UNCHANGED <<config, sessions, messages, created, chat, served, val, clear, ui, history>>

\* RedisService.connect() settles; on success start() calls app.listen
RedisConnects(ok) ==
  /\ server.pc = "redis"
  /\ server' = IF ok THEN [server EXCEPT !.pc = "listening", !.redis = TRUE]
               ELSE initializeServicesFailed(server, "redis")
  /\ UNCHANGED <<config, sessions, messages, created, chat, served, val, clear, ui, history>>

-------------------------------------------------------------------------------
(* Application.setupGracefulShutdown                                       *)

\* signals followed in one run
MaxSignals == 2

Signals == {"SIGTERM", "SIGINT"}

ProcessErrors == {"uncaughtException", "unhandledRejection"}

\* the handlers of setupGracefulShutdown are registered and the process runs
HandlersRegistered ==
  ~server.exited /\ server.pc \in {"listening", "closing", "closed"}

\* variant: the catch block of the shutdown exits with 0
shutdownFailureExitsZero(s, service) ==
  [s EXCEPT !.pc = "exited", !.error = service, !.exited = TRUE, !.exitCode = 0]

\* the catch block of the shutdown: process.exit(1)
shutdownFailed(s, service) ==
  [s EXCEPT !.pc = "exited", !.error = service, !.exited = TRUE, !.exitCode = 1]

\* SIGTERM or SIGINT: gracefulShutdown calls server.close(callback); the server
\* stops accepting connections, and the callback waits for the close event
Signal(signal) ==
  /\ HandlersRegistered
  /\ Len(server.callbacks) < MaxSignals
  /\ server' = [server EXCEPT
       !.pc = IF server.pc = "listening" THEN "closing" ELSE server.pc,
       !.callbacks = Append(server.callbacks, [signal |-> signal, pc |-> "waiting"])]
  /\ UNCHANGED <<config, sessions, messages, created, chat, served, val, clear, ui, history>>

\* the close event, once no request is being served: every waiting callback
\* runs up to its await of DatabaseService.disconnect()
HttpServerCloses ==
  /\ HandlersRegistered
  /\ \E k \in DOMAIN server.callbacks : server.callbacks[k].pc = "waiting"
  /\ chat.pc \in {"idle", "done"}
  /\ server' = [server EXCEPT
       !.pc = "closed", !.httpClosed = TRUE,
       !.callbacks = [k \in DOMAIN server.callbacks |->
                        IF server.callbacks[k].pc = "waiting"
                          THEN [server.callbacks[k] EXCEPT !.pc = "database"]
                          ELSE server.callbacks[k]]]
  /\ UNCHANGED <<config, sessions, messages, created, chat, served, val, clear, ui, history>>

\* DatabaseService.disconnect() settles for callback k; on success it awaits
\* RedisService.disconnect()
DatabaseDisconnects(k, ok) ==
  /\ HandlersRegistered
  /\ k \in DOMAIN server.callbacks
  /\ server.callbacks[k].pc = "database"
  /\ server' = IF ok
                 THEN [server EXCEPT !.database = FALSE, !.callbacks[k].pc = "redis"]
                 ELSE shutdownFailed(server, "database")
  /\ UNCHANGED <<config, sessions, messages, created, chat, served, val, clear, ui, history>>

\* RedisService.disconnect() settles for callback k; on success process.exit(0)
RedisDisconnects(k, ok) ==
  /\ HandlersRegistered
  /\ k \in DOMAIN server.callbacks
  /\ server.callbacks[k].pc = "redis"
  /\ server' = IF ok
                 THEN [server EXCEPT !.redis = FALSE, !.callbacks[k].pc = "done",
                                     !.pc = "exited", !.exited = TRUE, !.exitCode = 0]
                 ELSE shutdownFailed(server, "redis")
  /\ UNCHANGED <<config, sessions, messages, created, chat, served, val, clear, ui, history>>

\* an uncaughtException or unhandledRejection event: process.exit(1)
ProcessError(kind) ==
  /\ HandlersRegistered
  /\ server' = [server EXCEPT !.pc = "exited", !.error = kind, !.exited = TRUE,
                              !.exitCode = 1]
  /\ UNCHANGED <<config, sessions, messages, created, chat, served, val, clear, ui, history>>

-------------------------------------------------------------------------------
(* ChatController.clearChatHistory                                         *)

\* no clearChatHistory request is being served; n have been
ClearIdle(n) ==
  [ pc |-> "idle", sessionId |-> 0, count |-> 0, served |-> n, res |-> NoFields ]

\* clearChatHistory requests served in one run
MaxClearRequests == 2

\* variant: the where clause is lost and every message is deleted
withoutAny(msgs, sessionId) == SubSeq(msgs, 1, 0)

\* the rows left by deleteMany({ where: { sessionId } })
withoutSession(msgs, sessionId) == SelectSeq(msgs, LAMBDA m : m.sessionId # sessionId)

\* onDelete: Cascade on the Message -> ChatSession relation
onDeleteCascade(msgs, sessionId) == withoutSession(msgs, sessionId)

\* variant: deleting a row that is not there is no error
deleteNeverThrows(sessionId) == FALSE

\* prisma.chatSession.delete throws when no row has the id
deleteThrows(sessionId) == sessionId \notin sessions

\* DELETE /chat/history/:sessionId arrives: the messages of the session are
\* deleted
ClearChatHistory(sessionId) ==
  /\ server.pc = "listening"
  /\ clear.pc = "idle"
  /\ clear.served < MaxClearRequests
  /\ messages' = withoutSession(messages, sessionId)
  /\ clear' = [clear EXCEPT !.pc = "deleted", !.sessionId = sessionId,
                            !.count = Len(messages) - Len(messages'),
                            !.served = clear.served + 1]
  /\ UNCHANGED <<config, sessions, created, chat, served, val, server, ui, history>>

\* prisma.chatSession.delete, then the response; deleting a session that is
\* not stored is an error, answered by the catch block
DeleteSession ==
  /\ clear.pc = "deleted"
  /\ IF ~deleteThrows(clear.sessionId)
       THEN /\ sessions' = sessions \ {clear.sessionId}
            /\ messages' = onDeleteCascade(messages, clear.sessionId)
            /\ clear' = [clear EXCEPT !.pc = "done",
                           !.res = [ status |-> 200, success |-> TRUE,
                                     message |-> "Chat history cleared successfully",
                                     deletedMessages |-> clear.count ]]
       ELSE /\ clear' = [clear EXCEPT !.pc = "done",
                           !.res = [ status |-> 500, success |-> FALSE,
                                     message |-> "Failed to clear chat history" ]]
            /\ UNCHANGED <<sessions, messages>>
  /\ UNCHANGED <<config, created, chat, served, val, server, ui, history>>

\* the handler has answered and returns
FinishClear ==
  /\ clear.pc = "done"
  /\ clear' = ClearIdle(clear.served)
  /\ UNCHANGED <<config, sessions, messages, created, chat, served, val, server, ui, history>>

-------------------------------------------------------------------------------
(* ChatController.getChatHistory                                           *)

\* no getChatHistory request is being served; n have been
HistoryIdle(n) ==
  [ pc |-> "idle", query |-> NoFields, where |-> 0, limit |-> 0, offset |-> 0,
    found |-> <<>>, served |-> n, res |-> NoFields ]

\* getChatHistory requests served in one run
MaxHistoryRequests == 2

\* the query strings of GET /chat/history as Express hands them over in
\* req.query: a parameter is left out (sessionId 0, limit or offset <<>>) or it
\* is the text the client wrote
HistoryQueries ==
  [ sessionId : {0} \cup SessionIds,
    limit     : {<<>>, <<"1">>, <<"2">>},
    offset    : {<<>>, <<"0">>, <<"1">>} ]

\* z.number() with a default: an absent parameter takes the default, a present
\* one is a string and is no number
zNumberOK(value) == value = <<>>

\* historyRequestSchema.parse(req.query) does not throw
historyRequestSchemaOK(query) == zNumberOK(query.limit) /\ zNumberOK(query.offset)

Min(a, b) == IF a <= b THEN a ELSE b

reverse(xs) == SubSeq([k \in 1..Len(xs) |-> xs[Len(xs) + 1 - k]], 1, Len(xs))

\* the rows a where clause selects, in order of creation; sessionId 0 is the
\* empty clause
matching(msgs, sessionId) ==
  SelectSeq(msgs, LAMBDA m : sessionId = 0 \/ m.sessionId = sessionId)

\* findMany({ where, orderBy: { createdAt: 'desc' }, take, skip })
findMany(msgs, sessionId, take, skip) ==
  LET desc == reverse(matching(msgs, sessionId))
  IN  SubSeq(desc, skip + 1, Min(skip + take, Len(desc)))

\* GET /chat/history arrives: the query is parsed and the page read
GetChatHistory(query) ==
  /\ server.pc = "listening"
  /\ history.pc = "idle"
  /\ history.served < MaxHistoryRequests
  /\ history' =
       IF ~historyRequestSchemaOK(query)
         THEN [history EXCEPT !.pc = "done", !.query = query,
                 !.served = history.served + 1,
                 !.res = [ status |-> 400, success |-> FALSE,
                           message |-> "Invalid query parameters" ]]
         ELSE [history EXCEPT !.pc = "found", !.query = query,
                 !.served = history.served + 1,
                 !.where = query.sessionId, !.limit = 50, !.offset = 0,
                 !.found = findMany(messages, query.sessionId, 50, 0)]
  /\ UNCHANGED <<config, sessions, messages, created, chat, served, val, server, clear, ui>>

\* prisma.message.count, then the response
CountMessages ==
  /\ history.pc = "found"
  /\ LET totalCount == Len(matching(messages, history.where))
     IN  history' = [history EXCEPT !.pc = "done",
           !.res = [ status |-> 200, success |-> TRUE,
                     messages |-> reverse(history.found),
                     sessionId |-> history.where,
                     pagination |-> [ total |-> totalCount, limit |-> history.limit,
                                      offset |-> history.offset,
                                      hasMore |-> history.offset + history.limit < totalCount ] ]]
  /\ UNCHANGED <<config, sessions, messages, created, chat, served, val, server, clear, ui>>

\* the handler has answered and returns
FinishHistory ==
  /\ history.pc = "done"
  /\ history' = HistoryIdle(history.served)
  /\ UNCHANGED <<config, sessions, messages, created, chat, served, val, server, clear, ui>>

-------------------------------------------------------------------------------
(* ChatInterface.handleSubmit and the api client of the frontend           *)

\* String.prototype.trim
RECURSIVE TrimEnd(_)
TrimEnd(s) ==
  IF Len(s) > 0 /\ s[Len(s)] \in WhiteSpace THEN TrimEnd(SubSeq(s, 1, Len(s) - 1)) ELSE s

trim(s) == TrimEnd(TrimStart(s))

\* what the user may have typed when submitting
UiInputs ==
  { MsgValid, <<" ">> \o MsgValid \o <<"\n">>, MsgHomework, ReplyValid, ReplyOffTopic,
    <<" ", " ">>, <<>> }

\* the chat interface as it is mounted: nothing typed, nothing sent
UiMounted ==
  [ pc |-> "idle", isLoading |-> FALSE, messages |-> <<>>, request |-> NoFields,
    assigned |-> <<>>, submits |-> 0, submitted |-> <<>>, inflight |-> 0,
    outcome |-> NoFields ]

\* submit events (the button, or Enter in the text area) followed in one run
MaxSubmits == 3

\* api.sendMessage(input.trim()): the body posted; handleSubmit passes no
\* sessionId
postBody(message) == [ message |-> message, provider |-> "", sessionId |-> 0 ]

\* variant: only blank input is ignored
ignoresBlankOnly(input, isLoading) == Len(trim(input)) = 0

\* if (!input.trim() || isLoading) return;
submitIgnored(input, isLoading) == Len(trim(input)) = 0 \/ isLoading

\* handleSubmit up to its await: blank input or a request in flight returns at
\* once; otherwise the user message is added and the request sent
HandleSubmit(input) ==
  /\ ui.submits < MaxSubmits
  /\ ui' =
       IF submitIgnored(input, ui.isLoading)
         THEN [ui EXCEPT !.submits = ui.submits + 1, !.submitted = input]
         ELSE [ui EXCEPT !.submits = ui.submits + 1, !.submitted = input,
                         !.pc = "sent", !.isLoading = TRUE,
                         !.messages = Append(ui.messages,
                            [role |-> "user", content |-> trim(input), isError |-> FALSE]),
                         !.request = postBody(trim(input)),
                         !.inflight = ui.inflight + 1]
  /\ UNCHANGED <<config, sessions, messages, created, chat, served, val, server, clear, history>>

\* the posted request arrives at sendMessage
UiRequestArrives ==
  /\ ui.pc = "sent"
  /\ server.pc = "listening"
  /\ sendMessageBegins(ui.request)
  /\ ui' = [ui EXCEPT !.pc = "awaiting"]
  /\ UNCHANGED <<config, sessions, messages, created, val, server, clear, history>>

\* what the posted request may settle with: a 2xx response with its body, an
\* error response whose body has a message, or an error without a response (no
\* connection, or the 30 s timeout of the client), with or without a message
ApiOutcomes ==
  { [ ok |-> TRUE,  content |-> ReplyValid, dataMessage |-> "", errorMessage |-> "" ],
    [ ok |-> FALSE, content |-> <<>>, dataMessage |-> "Message blocked by safety filters",
      errorMessage |-> "Request failed with status code 400" ],
    [ ok |-> FALSE, content |-> <<>>, dataMessage |-> "",
      errorMessage |-> "timeout of 30000ms exceeded" ],
    [ ok |-> FALSE, content |-> <<>>, dataMessage |-> "", errorMessage |-> "" ] }

\* api.interceptors.response: the message of the Error thrown for a failed
\* request
interceptorMessage(error) ==
  IF error.dataMessage # "" THEN error.dataMessage
  ELSE IF error.errorMessage # "" THEN error.errorMessage
  ELSE "An unexpected error occurred"

\* variant: isLoading is reset after a reply only
withoutFinally(u, outcome) ==
  [u EXCEPT
     !.pc = "idle", !.isLoading = ~outcome.ok, !.request = NoFields,
     !.inflight = u.inflight - 1, !.outcome = outcome,
     !.messages = Append(u.messages,
        IF outcome.ok
          THEN [role |-> "assistant", content |-> outcome.content, isError |-> FALSE]
          ELSE [role |-> "assistant", content |-> "Something went wrong",
                isError |-> TRUE])]

\* handleSubmit after its await: addResponse with the reply, or addError with
\* the error, and setIsLoading(false) in the finally block
settled(u, outcome) ==
  [u EXCEPT
     !.pc = "idle", !.isLoading = FALSE, !.request = NoFields,
     !.inflight = u.inflight - 1, !.outcome = outcome,
     !.messages = Append(u.messages,
        IF outcome.ok
          THEN [role |-> "assistant", content |-> outcome.content, isError |-> FALSE]
          ELSE [role |-> "assistant", content |-> interceptorMessage(outcome),
                isError |-> TRUE])]

\* the request settles with the response sendMessage sent
UiSettles ==
  /\ ui.pc = "awaiting"
  /\ chat.pc = "done"
  /\ ui' = [settled(ui,
              IF chat.res.success
                THEN [ ok |-> TRUE, content |-> chat.res.content, dataMessage |-> "",
                       errorMessage |-> "" ]
                ELSE [ ok |-> FALSE, content |-> <<>>, dataMessage |-> chat.res.message,
                       errorMessage |-> "Request failed" ])
            EXCEPT !.assigned = IF chat.currentSessionId # 0
                                  THEN Append(ui.assigned, chat.currentSessionId)
                                  ELSE ui.assigned]
  /\ chat' = IdleChat
  /\ UNCHANGED <<config, sessions, messages, created, served, val, server, clear, history>>

\* the request settles, whatever served it
UiRequestSettles(outcome) ==
  /\ ui.pc = "sent"
  /\ ui' = settled(ui, outcome)
  /\ UNCHANGED <<config, sessions, messages, created, chat, served, val, server, clear, history>>

-------------------------------------------------------------------------------
(* Specifications                                                          *)

\* what the environment may hold when the server serves chat requests
Environments ==
  { [ DEFAULT_AI_PROVIDER |-> "", MIN_SAFETY_SCORE |-> <<>>, apiKeys |-> Providers ],
    [ DEFAULT_AI_PROVIDER |-> "anthropic", MIN_SAFETY_SCORE |-> <<"0",".","7">>,
      apiKeys |-> {"anthropic", "google"} ] }

NoValidation == [pc |-> "none", input |-> <<>>, result |-> NoFields]

Init ==
  /\ config \in {LoadConfig(env) : env \in Environments}
  /\ sessions \in SUBSET SessionIds
  /\ messages = <<>>
  /\ created = 0
  /\ chat = IdleChat
  /\ served = 0
  /\ val = NoValidation
  /\ server = Constructed
  /\ clear = ClearIdle(0)
  /\ ui = UiMounted
  /\ history = HistoryIdle(0)

Next ==
  \/ Start
  \/ \E ok \in BOOLEAN : DatabaseConnects(ok)
  \/ \E ok \in BOOLEAN : RedisConnects(ok)
  \/ \E body \in ChatBodies : SendMessage(body)
  \/ \E request \in AIRequests : CallGenerateResponse(request)
  \/ StoreUserMessage
  \/ GenerateResponse
  \/ \E outcome \in Outcomes : ProviderSettles(outcome)
  \/ CatchError
  \/ StoreAssistantMessage
  \/ UpsertSession
  \/ Finish

Spec == Init /\ [][Next]_vars

\* generateResponse called on its own, under every provider configuration
GenerateEnvironments ==
  [ DEFAULT_AI_PROVIDER : {"", "anthropic", "azure"},
    MIN_SAFETY_SCORE    : {<<>>},
    apiKeys             : SUBSET Providers ]

InitGenerate ==
  /\ config \in {LoadConfig(env) : env \in GenerateEnvironments}
  /\ sessions = {}
  /\ messages = <<>>
  /\ created = 0
  /\ chat = IdleChat
  /\ served = 0
  /\ val = NoValidation
  /\ server = Listening
  /\ clear = ClearIdle(0)
  /\ ui = UiMounted
  /\ history = HistoryIdle(0)

NextGenerate ==
  \/ \E request \in AIRequests : CallGenerateResponse(request)
  \/ GenerateResponse
  \/ \E outcome \in Outcomes : ProviderSettles(outcome)
  \/ CatchError
  \/ Finish

SpecGenerate == InitGenerate /\ [][NextGenerate]_vars

\* validateContent on every input text, under every minimum score
ValidateEnvironments ==
  [ DEFAULT_AI_PROVIDER : {""},
    MIN_SAFETY_SCORE    : {<<>>, <<"0",".","7">>, <<"1","0","0">>, <<"5","0">>},
    apiKeys             : {Providers} ]

InitValidate ==
  /\ config \in {LoadConfig(env) : env \in ValidateEnvironments}
  /\ sessions = {}
  /\ messages = <<>>
  /\ created = 0
  /\ chat = IdleChat
  /\ served = 0
  /\ val \in [pc : {"input"}, input : Texts, result : {NoFields}]
  /\ server = Listening
  /\ clear = ClearIdle(0)
  /\ ui = UiMounted
  /\ history = HistoryIdle(0)

SpecValidate == InitValidate /\ [][Validate]_vars

\* sendMessage and clearChatHistory on one store, their steps interleaved
StoreBodies ==
  [ message : {MsgValid, MsgHomework}, sessionId : {0} \cup SessionIds, provider : {""} ]

StoreOutcomes ==
  {[throws |-> TRUE, content |-> <<>>]}
    \cup {[throws |-> FALSE, content |-> x] : x \in {ReplyValid, ReplyOffTopic}}

StoreEnvironment ==
  [ DEFAULT_AI_PROVIDER |-> "", MIN_SAFETY_SCORE |-> <<>>, apiKeys |-> Providers ]

InitStore ==
  /\ config = LoadConfig(StoreEnvironment)
  /\ sessions \in SUBSET SessionIds
  /\ messages = <<>>
  /\ created = 0
  /\ chat = IdleChat
  /\ served = 0
  /\ val = NoValidation
  /\ server = Listening
  /\ clear = ClearIdle(0)
  /\ ui = UiMounted
  /\ history = HistoryIdle(0)

NextStore ==
  \/ \E body \in StoreBodies : SendMessage(body)
  \/ StoreUserMessage
  \/ GenerateResponse
  \/ \E outcome \in StoreOutcomes : ProviderSettles(outcome)
  \/ CatchError
  \/ StoreAssistantMessage
  \/ UpsertSession
  \/ Finish
  \/ \E sessionId \in SessionIds : ClearChatHistory(sessionId)
  \/ DeleteSession
  \/ FinishClear

SpecStore == InitStore /\ [][NextStore]_vars

\* sendMessage and getChatHistory on one store, their steps interleaved
NextHistory ==
  \/ \E body \in StoreBodies : SendMessage(body)
  \/ StoreUserMessage
  \/ GenerateResponse
  \/ \E outcome \in StoreOutcomes : ProviderSettles(outcome)
  \/ CatchError
  \/ StoreAssistantMessage
  \/ UpsertSession
  \/ Finish
  \/ \E query \in HistoryQueries : GetChatHistory(query)
  \/ CountMessages
  \/ FinishHistory

SpecHistory == InitStore /\ [][NextHistory]_vars

\* the chat interface against the server.  Every request of the interface gets
\* a fresh session id, for which no ChatSession is stored, so sendMessage ends
\* at the creation of the USER message; its later steps do not occur here.
NextUi ==
  \/ \E input \in UiInputs : HandleSubmit(input)
  \/ UiRequestArrives
  \/ StoreUserMessage
  \/ UiSettles

SpecUi == InitStore /\ [][NextUi]_vars

\* the life of the process, from its start to its exit, with chat requests
\* served while it listens; a step of a request needs the process to run
LifecycleBodies == [ message : {MsgValid}, sessionId : {1}, provider : {""} ]

InitLifecycle ==
  /\ config = LoadConfig(StoreEnvironment)
  /\ sessions = {1}
  /\ messages = <<>>
  /\ created = 0
  /\ chat = IdleChat
  /\ served = 0
  /\ val = NoValidation
  /\ server = Constructed
  /\ clear = ClearIdle(0)
  /\ ui = UiMounted
  /\ history = HistoryIdle(0)

NextLifecycle ==
  \/ Start
  \/ \E ok \in BOOLEAN : DatabaseConnects(ok)
  \/ \E ok \in BOOLEAN : RedisConnects(ok)
  \/ \E body \in LifecycleBodies : SendMessage(body)
  \/ /\ ~server.exited
     /\ \/ StoreUserMessage
        \/ GenerateResponse
        \/ \E outcome \in StoreOutcomes : ProviderSettles(outcome)
        \/ CatchError
        \/ StoreAssistantMessage
        \/ UpsertSession
        \/ Finish
  \/ \E signal \in Signals : Signal(signal)
  \/ HttpServerCloses
  \/ \E k \in 1..MaxSignals, ok \in BOOLEAN : DatabaseDisconnects(k, ok)
  \/ \E k \in 1..MaxSignals, ok \in BOOLEAN : RedisDisconnects(k, ok)
  \/ \E kind \in ProcessErrors : ProcessError(kind)

SpecLifecycle == InitLifecycle /\ [][NextLifecycle]_vars

\* the chat interface on its own: the posted request settles with any outcome
InitUiClient ==
  /\ config = LoadConfig(StoreEnvironment)
  /\ sessions = {}
  /\ messages = <<>>
  /\ created = 0
  /\ chat = IdleChat
  /\ served = 0
  /\ val = NoValidation
  /\ server = Listening
  /\ clear = ClearIdle(0)
  /\ ui = UiMounted
  /\ history = HistoryIdle(0)

NextUiClient ==
  \/ \E input \in UiInputs : HandleSubmit(input)
  \/ \E outcome \in ApiOutcomes : UiRequestSettles(outcome)

SpecUiClient == InitUiClient /\ [][NextUiClient]_vars

\* a posted request settles: with a response, with an error, or by the
\* client's timeout
FairUiClient == WF_vars(\E outcome \in ApiOutcomes : UiRequestSettles(outcome))

SpecUiClientFair == SpecUiClient /\ FairUiClient

\* generateResponse with its steps scheduled: the event loop runs a ready
\* continuation, and an awaited provider call settles
FairGenerate ==
  /\ WF_vars(GenerateResponse)
  /\ WF_vars(\E outcome \in Outcomes : ProviderSettles(outcome))
  /\ WF_vars(CatchError)
  /\ WF_vars(Finish)

SpecGenerateFair == SpecGenerate /\ FairGenerate

-------------------------------------------------------------------------------
(* Properties of SafetyService.validateContent                             *)

\* word occurs in text, letter case ignored
ContainsIgnoreCase(text, word) ==
  \E i \in 1..(Len(text) - Len(word) + 1) :
    \A k \in 1..Len(word) : LowerChar(text[i + k - 1]) = LowerChar(word[k])

HasBlockedKeyword(text) ==
  \E k \in DOMAIN ConfigBlockedKeywords : ContainsIgnoreCase(text, ConfigBlockedKeywords[k])

\* text holds no educational keyword, topic or subject indicator
NoIndicator(text) ==
  /\ \A k \in DOMAIN educationalKeywords : ~ContainsIgnoreCase(text, educationalKeywords[k])
  /\ \A k \in DOMAIN ConfigEducationalTopics :
       ~ContainsIgnoreCase(text, ConfigEducationalTopics[k])
  /\ \A k \in DOMAIN subjectIndicators : ~ContainsIgnoreCase(text, subjectIndicators[k])

Validated == val.pc = "validated"

IssuesOf(result) == IF "issues" \in DOMAIN result THEN result.issues ELSE <<>>

TooLongIssue == Issue("Content is too long", <<>>)
NotEducationalIssue == Issue("Content does not appear to be educational", <<>>)

\* C8: a text that contains a configured blocked keyword, in any letter case,
\* is never valid, whatever else validateContent finds in it and whatever the
\* configured minimum score is.
C8_BlockedKeywordIsInvalid ==
  (Validated /\ HasBlockedKeyword(val.input)) => val.result.isValid = FALSE

\* a keyword written in mixed case, in a text with no other issue whose score
\* reaches the configured minimum
C8_Witness ==
  /\ Validated
  /\ HasBlockedKeyword(val.input)
  /\ toLowerCase(val.input) # val.input
  /\ Len(val.result.issues) = 1
  /\ val.result.safetyScore >= config.minSafetyScore
  /\ val.result.isValid = FALSE

\* C9: a text longer than 2000 characters gets a non-empty issues list and is
\* invalid; for a text of exactly 2000 characters the length check adds no issue.
C9_LengthLimit ==
  Validated =>
    /\ Len(val.input) > MaxContentLength =>
         /\ "issues" \in DOMAIN val.result
         /\ Len(val.result.issues) > 0
         /\ val.result.isValid = FALSE
    /\ Len(val.input) = MaxContentLength =>
         TooLongIssue \notin Range(IssuesOf(val.result))

\* a text of 2001 characters whose only issue is its length
C9_Witness ==
  /\ Validated
  /\ Len(val.input) = MaxContentLength + 1
  /\ val.result.issues = <<TooLongIssue>>
  /\ val.result.isValid = FALSE

\* C10: the empty string, and every text with no educational keyword, topic or
\* subject indicator, scores at most 0.7, and exactly 0.7 when no other check
\* finds anything.
C10_NonEducationalScore ==
  (Validated /\ NoIndicator(val.input)) =>
    /\ val.result.safetyScore <= 7 * (One \div 10)
    /\ IssuesOf(val.result) = <<NotEducationalIssue>> =>
         val.result.safetyScore = 7 * (One \div 10)
    /\ val.input = <<>> => val.result.safetyScore = 7 * (One \div 10)

\* a text without indicator in which the homework check triggers too
C10_Witness ==
  /\ Validated
  /\ NoIndicator(val.input)
  /\ Len(val.input) > 0
  /\ Len(val.result.issues) = 2
  /\ val.result.safetyScore < 7 * (One \div 10)

-------------------------------------------------------------------------------
(* Properties of generateResponse and sendMessage                          *)

Done == chat.pc = "done"

RejectedReply == "Generated response failed safety check"

\* the n-th error caught came from the provider call, not from the check of
\* its reply
CallFailed(n) == chat.caught[n].error # RejectedReply

\* the provider the n-th caught error belongs to
ProviderOf(n) == chat.attempts[chat.caught[n].attempt]

\* the request's message reaches validateContent and fails it
MessageInvalid ==
  /\ chat.pc # "idle"
  /\ \/ chat.entry = "generateResponse"
     \/ chatRequestSchemaOK([message |-> chat.message, provider |-> chat.provider])
  /\ ~validateContent(chat.message).isValid

\* C2: a request whose message fails validateContent ends with the
\* blocked-content error; no provider is tried for it, neither the requested one
\* nor the default one, and sendMessage has written nothing to the store when it
\* answers 400.
C2_InvalidMessageBlocked ==
  MessageInvalid =>
    /\ chat.attempts = <<>>
    /\ chat.sdkCalls = 0
    /\ chat.inflight = 0
    /\ chat.entry = "sendMessage" =>
         /\ chat.writes = 0
         /\ Done
         /\ chat.res.status = 400
         /\ chat.res.message = "Message blocked by safety filters"
    /\ (chat.entry = "generateResponse" /\ Done) =>
         /\ chat.res.success = FALSE
         /\ chat.res.message = "Content blocked"

\* sendMessage has answered 400 to a homework request that named a provider
C2_Witness ==
  /\ MessageInvalid
  /\ chat.entry = "sendMessage"
  /\ chat.message = MsgHomework
  /\ chat.provider = "google"
  /\ Done
  /\ chat.res.status = 400

\* the first provider tried is not the configured default, and its call failed
NonDefaultFailed ==
  /\ Len(chat.caught) >= 1
  /\ chat.caught[1].attempt = 1
  /\ CallFailed(1)
  /\ chat.attempts[1] # config.defaultAiProvider

\* C3: when the call of a provider other than the configured default fails,
\* the default provider is tried exactly once afterwards; when that fails too,
\* its error reaches the caller and nothing further is tried.
C3_FallbackOnceToDefault ==
  NonDefaultFailed =>
    /\ Len(chat.attempts) <= 2
    /\ Len(chat.attempts) = 2 => chat.attempts[2] = config.defaultAiProvider
    /\ Done => Len(chat.attempts) = 2
    /\ Len(chat.caught) = 2 => chat.pc \in {"catch", "done"}
    /\ (Done /\ Len(chat.caught) = 2) =>
         /\ chat.res.success = FALSE
         /\ chat.res.message = chat.caught[2].error

\* both the requested provider and the default have failed, and the caller has
\* the error
C3_Witness ==
  /\ NonDefaultFailed
  /\ Done
  /\ chat.attempts = <<"google", "openai">>
  /\ Len(chat.caught) = 2
  /\ chat.sdkCalls = 2
  /\ chat.res.success = FALSE

C5_DocumentedFallbackOrder ==
  ( /\ config.defaultAiProvider = "openai"
    /\ config.apiKeys = Providers
    /\ chat.provider \in {"", "openai"}
    /\ Done
    /\ chat.res.success = FALSE
    /\ Len(chat.caught) >= 1
    /\ \A n \in DOMAIN chat.caught : CallFailed(n) )
  => chat.attempts = <<"openai", "anthropic", "google">>

\* C6: when a provider returns content that fails validateContent,
\* generateResponse fails for that request, whichever provider was requested,
\* and tries no other provider because of it.
C6_RejectedReplyFails ==
  \A n \in DOMAIN chat.caught :
    ~CallFailed(n) =>
      /\ Len(chat.attempts) = chat.caught[n].attempt
      /\ Done => /\ chat.res.success = FALSE
                 /\ chat.res.message = RejectedReply

\* C7: generateResponse terminates; it tries at most two providers for a
\* request, the chosen one and at most one fallback to the default; it calls
\* itself at most once; and it never has two provider calls in flight.
C7_BoundedAndTerminates ==
  /\ [](/\ Len(chat.attempts) <= 2
        /\ chat.sdkCalls <= 2
        /\ chat.depth <= 1
        /\ chat.inflight <= 1)
  /\ (chat.pc = "genEnter") ~> Done

\* a request that used the fallback has returned
C7_Witness ==
  /\ Done
  /\ Len(chat.attempts) = 2
  /\ chat.sdkCalls = 2
  /\ chat.depth = 1
  /\ chat.inflight = 0
  /\ chat.res.success = TRUE

\* some content generated for the request failed validateContent
GeneratedInvalid ==
  \E k \in DOMAIN chat.generated : ~validateContent(chat.generated[k].content).isValid

\* no stored ASSISTANT message and no success:true response holds content that
\* fails validateContent
NoInvalidAssistantContent ==
  /\ \A i \in DOMAIN messages :
       messages[i].role = "ASSISTANT" => validateContent(messages[i].content).isValid
  /\ (chat.entry = "sendMessage" /\ Done /\ chat.res.success) =>
       validateContent(chat.res.content).isValid

\* C1: fail closed: no ASSISTANT message is stored and no success:true response
\* is sent whose content, as augmented, fails validateContent; a request for
\* which such content was generated ends with an error response, and no
\* assistant content is stored or returned for it.
C1_FailClosed ==
  /\ NoInvalidAssistantContent
  /\ (chat.entry = "sendMessage" /\ GeneratedInvalid) =>
       /\ chat.pc \notin {"storeAssistant", "upsert"}
       /\ chat.writes <= 1
       /\ Done => chat.res.success = FALSE

-------------------------------------------------------------------------------
(* Properties of the score, the verdict and the issues of validateContent  *)

\* the five checks in the order validateContent makes them: the issue each
\* records, its suggestion, and its penalty in ten-thousandths
Checks ==
  << [ issue      |-> "Contains inappropriate content: ",
       suggestion |-> "Please rephrase your question focusing on educational content.",
       penalty    |-> 5 * (One \div 10) ],
     [ issue      |-> "Content does not appear to be educational",
       suggestion |-> "Please ask questions related to academic subjects like math, science, literature, or other learning topics.",
       penalty    |-> 3 * (One \div 10) ],
     [ issue      |-> "Content is too long",
       suggestion |-> "Please shorten your question to be more specific.",
       penalty    |-> 1 * (One \div 10) ],
     [ issue      |-> "This appears to be a homework question",
       suggestion |-> "Instead of asking for the answer, ask how to approach the problem or explain concepts you need help understanding.",
       penalty    |-> 2 * (One \div 10) ],
     [ issue      |-> "Content may be harmful or dangerous",
       suggestion |-> "Please focus on safe, educational topics.",
       penalty    |-> 8 * (One \div 10) ] >>

\* the checks that trigger on a text, as a set of positions in Checks
TriggeredChecks(text) ==
  LET scan == Scanned(text)
  IN  {k \in DOMAIN Checks :
         \/ k = 1 /\ Len(scan.foundBlockedKeywords) > 0
         \/ k = 2 /\ ~scan.isEducational
         \/ k = 3 /\ Len(text) > MaxContentLength
         \/ k = 4 /\ scan.isHomeworkPattern
         \/ k = 5 /\ scan.hasDangerousContent}

RECURSIVE SumPenalties(_)
SumPenalties(ks) ==
  IF ks = {} THEN 0
  ELSE LET k == CHOOSE x \in ks : TRUE
       IN  Checks[k].penalty + SumPenalties(ks \ {k})

\* max(0, 1.0 - sum of the penalties), in exact decimal arithmetic
ExactScore(text) ==
  IF One - SumPenalties(TriggeredChecks(text)) >= 0
    THEN One - SumPenalties(TriggeredChecks(text))
    ELSE 0

SuggestionsOf(result) ==
  IF "suggestions" \in DOMAIN result THEN result.suggestions ELSE <<>>

\* the position in Checks of the k-th triggered check
RECURSIVE NthTriggered(_, _)
NthTriggered(ks, n) ==
  LET least == CHOOSE x \in ks : \A y \in ks : x <= y
  IN  IF n = 1 THEN least ELSE NthTriggered(ks \ {least}, n - 1)

\* C11: for every combination of the five checks the score equals
\* max(0, 1.0 - sum of the penalties of the triggered checks), computed in exact
\* decimal arithmetic with penalties 0.5, 0.3, 0.1, 0.2, 0.8, and lies in [0, 1].
C11_ExactDecimalScore ==
  Validated =>
    /\ val.result.safetyScore = ExactScore(val.input)
    /\ val.result.safetyScore >= 0
    /\ val.result.safetyScore <= One

\* C12: isValid is true exactly when the score reaches the configured minimum
\* and no issue was recorded; so a text that triggers only the length check
\* (score 0.9) or only the homework check (score 0.8) is invalid although its
\* score reaches the minimum.
C12_ValidIffScoreAndNoIssue ==
  Validated =>
    /\ val.result.isValid =
         (val.result.safetyScore >= config.minSafetyScore /\ IssuesOf(val.result) = <<>>)
    /\ (TriggeredChecks(val.input) \in {{3}, {4}}
          /\ val.result.safetyScore >= config.minSafetyScore)
         => val.result.isValid = FALSE

\* a text that only matches a homework pattern: score 0.8, at or above the
\* minimum, and invalid
C12_Witness ==
  /\ Validated
  /\ TriggeredChecks(val.input) = {4}
  /\ val.result.safetyScore = 8 * (One \div 10)
  /\ val.result.safetyScore >= config.minSafetyScore
  /\ val.result.isValid = FALSE

\* C13: every triggered check contributes one issue and its suggestion, in the
\* order blocked, non-educational, length, homework, dangerous; issues and
\* suggestions are as long as the number of triggered checks and absent when
\* none triggers; a text matching a homework pattern gets the homework issue,
\* the suggestion to ask about the approach, and a score below 1.0.
C13_IssuesAndSuggestions ==
  Validated =>
    LET ks == TriggeredChecks(val.input)
        issues == IssuesOf(val.result)
        suggestions == SuggestionsOf(val.result)
    IN  /\ Len(issues) = Cardinality(ks)
        /\ Len(suggestions) = Cardinality(ks)
        /\ \A n \in 1..Cardinality(ks) :
             /\ issues[n].text = Checks[NthTriggered(ks, n)].issue
             /\ suggestions[n] = Checks[NthTriggered(ks, n)].suggestion
        /\ ks = {} => /\ "issues" \notin DOMAIN val.result
                      /\ "suggestions" \notin DOMAIN val.result
        /\ Scanned(val.input).isHomeworkPattern =>
             /\ \E n \in DOMAIN issues :
                  /\ issues[n].text = Checks[4].issue
                  /\ suggestions[n] = Checks[4].suggestion
             /\ val.result.safetyScore < One

\* a text that triggers three checks, the homework check among them
C13_Witness ==
  /\ Validated
  /\ TriggeredChecks(val.input) = {1, 2, 4}
  /\ Len(val.result.issues) = 3
  /\ Len(val.result.suggestions) = 3
  /\ val.result.issues[3].text = Checks[4].issue

-------------------------------------------------------------------------------
(* Properties of sendMessage over the store, of its responses, of startup  *)

\* sendMessage has answered the request it was serving
Answered == chat.entry = "sendMessage" /\ Done

\* the request body passed the schema
WellFormed == chatRequestSchemaOK([message |-> chat.message, provider |-> chat.provider])

\* the stored messages of a session with a given role
StoredUnder(sessionId, role) ==
  {i \in DOMAIN messages : messages[i].sessionId = sessionId /\ messages[i].role = role}

\* C14: the first message of a conversation: a valid message, sent with a
\* session id for which no ChatSession exists (or with none), no provider
\* failing, is answered success:true; afterwards the ChatSession exists and holds
\* the USER and the ASSISTANT message of the request.
C14_FirstMessageCreatesSession ==
  ( /\ Answered
    /\ WellFormed
    /\ validateContent(chat.message).isValid
    /\ chat.caught = <<>>
    /\ chat.sessionId = 0 \/ chat.currentSessionId \notin sessions )
  => /\ chat.res.success = TRUE
     /\ chat.currentSessionId \in sessions
     /\ StoredUnder(chat.currentSessionId, "USER") # {}
     /\ StoredUnder(chat.currentSessionId, "ASSISTANT") # {}

\* C18: a chat request that ends because content failed the scorer, be it the
\* user's message or the generated reply, is answered 400 with the issues and
\* suggestions; a malformed body is answered 400; 500 is answered only when a
\* provider call failed or another internal error occurred.
C18_StatusTaxonomy ==
  Answered =>
    /\ ~WellFormed => chat.res.status = 400
    /\ (WellFormed /\ ~validateContent(chat.message).isValid) =>
         /\ chat.res.status = 400
         /\ "issues" \in DOMAIN chat.res
         /\ "suggestions" \in DOMAIN chat.res
    /\ chat.error = RejectedReply =>
         /\ chat.res.status = 400
         /\ "issues" \in DOMAIN chat.res
         /\ "suggestions" \in DOMAIN chat.res
    /\ chat.res.status = 500 => chat.error # RejectedReply

\* C19: every response is a JSON envelope with a boolean success field and a
\* data or a message field.
C19_ResponseEnvelope ==
  Answered =>
    /\ "success" \in DOMAIN chat.res
    /\ chat.res.success \in BOOLEAN
    /\ "data" \in DOMAIN chat.res \/ "message" \in DOMAIN chat.res

\* C20: the server listens only after the database connection and then the
\* Redis connection have succeeded; when either fails the process exits with
\* code 1 and never listens.
C20_StartupOrder ==
  /\ [](/\ server.pc = "listening" => (server.database /\ server.redis)
        /\ server.redis => server.database
        /\ server.error # "" => /\ server.exited
                                /\ server.exitCode = 1
                                /\ server.pc = "exited"
        /\ chat.pc # "idle" => server.pc = "listening")
  /\ [][server.exited => (server'.exited /\ server'.pc = "exited")]_vars

\* the database connected, Redis did not, and the process has exited with 1
C20_Witness ==
  /\ server.pc = "exited"
  /\ server.database
  /\ ~server.redis
  /\ server.error = "redis"
  /\ server.exitCode = 1

-------------------------------------------------------------------------------
(* Properties of the store under sendMessage and clearChatHistory          *)

\* the messages of the sessions other than sessionId, in stored order
OfOtherSessions(msgs, sessionId) ==
  SelectSeq(msgs, LAMBDA m : m.sessionId # sessionId)

\* the number of stored messages of a session
CountOf(msgs, sessionId) ==
  Cardinality({i \in DOMAIN msgs : msgs[i].sessionId = sessionId})

\* a step of some clearChatHistory request
ClearStep == clear'.pc # clear.pc

\* C15: every stored Message belongs to a stored ChatSession; a message once
\* created keeps its content, role and sessionId; messages appear only by
\* creation and disappear only by a history-clear.
C15_MessagesOwnedAndImmutable ==
  /\ [](\A i \in DOMAIN messages : messages[i].sessionId \in sessions)
  /\ [][ /\ \A j \in DOMAIN messages' :
              \/ \E i \in DOMAIN messages : messages[i] = messages'[j]
              \/ /\ messages'[j].id > created
                 /\ chat.pc \in {"storeUser", "storeAssistant"}
                 /\ messages' = Append(messages, messages'[j])
         /\ (\E i \in DOMAIN messages : messages[i] \notin Range(messages'))
              => ClearStep ]_vars

\* a clear has removed the messages of one session and those of another remain
C15_Witness ==
  /\ clear.served = 1
  /\ clear.pc = "idle"
  /\ messages # <<>>
  /\ created > Len(messages)
  /\ \A i \in DOMAIN messages : messages[i].sessionId \in sessions

\* C16: when clearChatHistory(s) answers success, neither session s nor any
\* message of s is stored, deletedMessages is the number of messages of s that
\* existed when the request deleted them, and the other sessions and their
\* messages are as they were.
C16_ClearFrame ==
  [][ /\ (clear.pc = "idle" /\ clear'.pc = "deleted") =>
           /\ clear'.count = CountOf(messages, clear'.sessionId)
           /\ CountOf(messages', clear'.sessionId) = 0
           /\ OfOtherSessions(messages', clear'.sessionId)
                = OfOtherSessions(messages, clear'.sessionId)
           /\ sessions' = sessions
      /\ (clear.pc = "deleted" /\ clear'.pc = "done" /\ clear'.res.success) =>
           /\ clear.sessionId \notin sessions'
           /\ CountOf(messages', clear.sessionId) = 0
           /\ clear'.res.deletedMessages = clear.count
           /\ sessions' = sessions \ {clear.sessionId}
           /\ OfOtherSessions(messages', clear.sessionId)
                = OfOtherSessions(messages, clear.sessionId) ]_vars

\* a clear has answered success after deleting the two messages of its
\* session, and another session keeps its messages
C16_Witness ==
  /\ clear.pc = "done"
  /\ clear.res.success
  /\ clear.res.deletedMessages = 2
  /\ clear.sessionId \notin sessions
  /\ CountOf(messages, clear.sessionId) = 0
  /\ messages # <<>>

-------------------------------------------------------------------------------
(* Properties of the chat interface                                        *)

\* C17: messages sent one after another from the chat interface accumulate in
\* one ChatSession: the second and later messages go under the session of the
\* first.
C17_OneSessionPerConversation ==
  /\ \A n \in DOMAIN ui.assigned : ui.assigned[n] = ui.assigned[1]
  /\ (ui.pc = "awaiting" /\ chat.currentSessionId # 0 /\ Len(ui.assigned) > 0) =>
       chat.currentSessionId = ui.assigned[1]

-------------------------------------------------------------------------------
(* Properties of the configuration                                         *)

\* SAFETY_THRESHOLDS.MIN_SCORE of the shared constants
MIN_SCORE == 7 * (One \div 10)

\* MIN_SAFETY_SCORE as the .env example and the production compose file set it
DocumentedMinSafetyScore == <<"0", ".", "7">>

\* C21: with the documented setting MIN_SAFETY_SCORE=0.7 the minimum safety
\* score validateContent uses is 0.7, the same as the default and as
\* SAFETY_THRESHOLDS.MIN_SCORE.
C21_DocumentedMinimum ==
  \A env \in ValidateEnvironments :
    (env.MIN_SAFETY_SCORE = DocumentedMinSafetyScore /\ config = LoadConfig(env)) =>
      /\ config.minSafetyScore = MIN_SCORE
      /\ config.minSafetyScore = minSafetyScoreOf(<<>>)

-------------------------------------------------------------------------------
(* Properties of getChatHistory                                            *)

\* the number a client wrote for a query parameter, or the schema's default
Requested(value, defaultValue) ==
  IF value = <<>> THEN defaultValue ELSE DigitsValue(value, 0)

\* positions offset .. offset+limit-1 of the matching messages ordered newest
\* first, put back in chronological order
PageOf(msgs, query) ==
  LET limit   == Requested(query.limit, 50)
      offset  == Requested(query.offset, 0)
      all     == matching(msgs, query.sessionId)
      newest  == [k \in 1..Len(all) |-> all[Len(all) + 1 - k]]
      last    == Min(offset + limit, Len(all))
  IN  [k \in 1..(IF last > offset THEN last - offset ELSE 0) |-> newest[last + 1 - k]]

\* C22: getChatHistory(limit, offset) returns, in chronological order, exactly
\* the messages at positions offset .. offset+limit-1 of the matching messages
\* ordered newest first; total is the count of all matching messages; hasMore is
\* true exactly when offset + limit < total.
C22_HistoryPage ==
  [][ /\ (history.pc = "idle" /\ history'.pc # "idle") =>
           /\ history'.pc = "found"
           /\ reverse(history'.found) = PageOf(messages, history'.query)
      /\ (history.pc = "found" /\ history'.pc = "done") =>
           LET total  == Len(matching(messages, history.query.sessionId))
               limit  == Requested(history.query.limit, 50)
               offset == Requested(history.query.offset, 0)
           IN  /\ history'.res.success
               /\ history'.res.messages = reverse(history.found)
               /\ history'.res.pagination.total = total
               /\ history'.res.pagination.hasMore = (offset + limit < total) ]_vars

-------------------------------------------------------------------------------
(* Properties of the stored and returned safety scores                     *)

\* the texts validateContent is called on while chat requests are served
ServedTexts == Messages \cup {applyEducationalContext(x) : x \in Replies}

\* C23: every validation that returns isValid = true has safetyScore exactly
\* 1.0; so has every message sendMessage stores, USER or ASSISTANT, every
\* response generateResponse returns and every success:true response; the
\* adapters' placeholder 0.9 is never stored or returned.
C23_ValidMeansFullScore ==
  /\ \A t \in ServedTexts :
       validateContent(t).isValid => validateContent(t).safetyScore = One
  /\ \A i \in DOMAIN messages : messages[i].safetyScore = One
  /\ "safetyScore" \in DOMAIN chat.aiResponse => chat.aiResponse.safetyScore = One
  /\ (Answered /\ chat.res.success) => chat.res.metadata.safetyScore = One
  /\ (chat.entry = "generateResponse" /\ Done /\ chat.res.success) =>
       chat.res.response.safetyScore = One

\* sendMessage has stored both messages of a request and answered success
C23_Witness ==
  /\ Answered
  /\ chat.res.success
  /\ chat.res.metadata.safetyScore = One
  /\ StoredUnder(chat.currentSessionId, "USER") # {}
  /\ \E i \in StoredUnder(chat.currentSessionId, "ASSISTANT") :
       /\ messages[i].content = chat.res.content
       /\ messages[i].safetyScore = One

-------------------------------------------------------------------------------
(* Properties of sendMessage as a unit of persistence                      *)

\* C24: sendMessage is all-or-nothing with respect to persistence: after a
\* request that does not respond success:true (malformed body, blocked message,
\* provider failure, failed reply validation) the store holds no message and no
\* session change produced by that request.
C24_AllOrNothing ==
  /\ []((Answered /\ ~chat.res.success) => chat.writes = 0)
  /\ [][sessions' # sessions => (chat'.entry = "sendMessage" /\ chat'.res.success)]_vars

-------------------------------------------------------------------------------
(* Properties of the provider named in a response                          *)

\* AIService.getAvailableProviders: the providers whose client was initialized
getAvailableProviders == {p \in Providers : p \in config.apiKeys}

\* generateResponse has returned a response to its caller
ResponseReturned == chat.entry = "generateResponse" /\ Done /\ chat.res.success

\* the provider the request asked for, the default when it named none
RequestedProvider ==
  IF chat.provider # "" THEN chat.provider ELSE config.defaultAiProvider

\* C25: the provider field of a response returned by generateResponse names
\* the provider whose call produced the returned content: the requested provider
\* when it succeeded, the configured default when the fallback produced it; a
\* provider with no API key is never named, a request for it being treated as a
\* provider failure.
C25_ProviderNamesProducer ==
  ResponseReturned =>
    LET response == chat.res.response
        last     == chat.generated[Len(chat.generated)]
    IN  /\ Len(chat.generated) >= 1
        /\ last.content = response.content
        /\ last.attempt = Len(chat.attempts)
        /\ response.provider = chat.attempts[last.attempt]
        /\ Len(chat.attempts) = 1 => response.provider = RequestedProvider
        /\ Len(chat.attempts) = 2 => response.provider = config.defaultAiProvider
        /\ response.provider \in getAvailableProviders
        /\ RequestedProvider \notin getAvailableProviders =>
             /\ response.provider # RequestedProvider
             /\ Len(chat.caught) >= 1
             /\ chat.caught[1].attempt = 1
             /\ CallFailed(1)

\* google was requested without an API key, and the default anthropic produced
\* the response
C25_Witness ==
  /\ ResponseReturned
  /\ chat.provider = "google"
  /\ "google" \notin getAvailableProviders
  /\ chat.attempts = <<"google", "anthropic">>
  /\ chat.sdkCalls = 1
  /\ chat.res.response.provider = "anthropic"

-------------------------------------------------------------------------------
(* Properties of sendMessage interleaved with clearChatHistory             *)

\* the stored messages the request being served created; requests are served
\* one after another, so they are the last chat.writes messages created
RequestMessages(role) ==
  {i \in DOMAIN messages :
     messages[i].id > created - chat.writes /\ messages[i].role = role}

\* C26: no interleaving of clearChatHistory(s) with an in-flight sendMessage on
\* the same session s leaves, once both have completed, a session s that holds
\* the ASSISTANT message of the request without its USER message, or a
\* success:true response whose stored messages are incomplete.
C26_NoTornConversation ==
  (Answered /\ clear.pc # "deleted") =>
    /\ RequestMessages("ASSISTANT") # {} => RequestMessages("USER") # {}
    /\ (chat.res.success /\ chat.currentSessionId \in sessions) =>
         /\ RequestMessages("USER") # {}
         /\ RequestMessages("ASSISTANT") # {}

-------------------------------------------------------------------------------
(* Properties of clearChatHistory on a session that is not stored          *)

\* C27: clearChatHistory on a session id for which no ChatSession is stored
\* (never created, or already cleared) responds 500 with success:false and
\* leaves the store unchanged; a clear that succeeds leaves its session not
\* stored, so clearing the same session twice succeeds the first time and fails
\* the second.
C27_ClearOfMissingSessionFails ==
  [][ /\ (clear.pc = "idle" /\ clear'.pc = "deleted" /\ clear'.sessionId \notin sessions) =>
           /\ messages' = messages
           /\ sessions' = sessions
           /\ clear'.count = 0
      /\ (clear.pc = "deleted" /\ clear'.pc = "done") =>
           /\ clear.sessionId \notin sessions =>
                /\ clear'.res.status = 500
                /\ clear'.res.success = FALSE
                /\ messages' = messages
                /\ sessions' = sessions
           /\ clear'.res.success =>
                /\ clear.sessionId \in sessions
                /\ clear.sessionId \notin sessions' ]_vars

\* sendMessage stored two messages under a session; a first clear of that
\* session removed it, and the second clear of it has been answered 500
C27_Witness ==
  /\ Answered
  /\ chat.res.success
  /\ chat.writes = 2
  /\ clear.served = 2
  /\ clear.pc = "done"
  /\ clear.sessionId = chat.currentSessionId
  /\ clear.sessionId \notin sessions
  /\ clear.res.status = 500
  /\ clear.res.success = FALSE
  /\ messages = <<>>

-------------------------------------------------------------------------------
(* Properties of handleSubmit                                              *)

\* a submit event has been handled
SubmitStep == ui'.submits # ui.submits

\* the posted request has settled
SettleStep == ui.inflight > 0 /\ ui'.inflight < ui.inflight

\* C28: a submit while a request is in flight (isLoading) or with blank input
\* adds no message and sends no request, so at most one sendMessage request is
\* in flight per chat interface at any time.
C28_OneRequestInFlight ==
  /\ [](/\ ui.inflight <= 1
        /\ ui.isLoading = (ui.inflight = 1))
  /\ [][ (SubmitStep /\ (ui.isLoading \/ Len(trim(ui'.submitted)) = 0)) =>
           /\ ui'.messages = ui.messages
           /\ ui'.inflight = ui.inflight
           /\ ui'.request = ui.request
           /\ ui'.isLoading = ui.isLoading ]_vars

\* while the request for one message is in flight, a submit of another text
\* has been ignored
C28_Witness ==
  /\ ui.isLoading
  /\ ui.inflight = 1
  /\ ui.submits = 2
  /\ Len(ui.messages) = 1
  /\ Len(trim(ui.submitted)) > 0
  /\ ui.messages[1].content # trim(ui.submitted)

\* xs is ys or the beginning of ys
IsPrefix(xs, ys) == Len(xs) <= Len(ys) /\ xs = SubSeq(ys, 1, Len(xs))

\* C29: every accepted submit appends the user message to the store first and
\* then, once the request settles, exactly one further message: the assistant
\* reply on success, a message with isError = true on failure; isLoading is
\* eventually reset to false in both cases; existing messages are never
\* reordered or removed.
C29_SubmitSettles ==
  /\ [][ /\ IsPrefix(ui.messages, ui'.messages)
         /\ (SubmitStep /\ ~ui.isLoading /\ Len(trim(ui'.submitted)) > 0) =>
              /\ ui'.messages = Append(ui.messages,
                   [role |-> "user", content |-> trim(ui'.submitted), isError |-> FALSE])
              /\ ui'.isLoading
              /\ ui'.request.message = trim(ui'.submitted)
         /\ SettleStep =>
              /\ Len(ui'.messages) = Len(ui.messages) + 1
              /\ ui.messages[Len(ui.messages)].role = "user"
              /\ ui'.messages[Len(ui'.messages)].role = "assistant"
              /\ ui'.messages[Len(ui'.messages)].isError = ~ui'.outcome.ok
              /\ ui'.outcome.ok =>
                   ui'.messages[Len(ui'.messages)].content = ui'.outcome.content
              /\ ~ui'.isLoading ]_vars
  /\ (ui.isLoading ~> ~ui.isLoading)

\* one submit was answered with a reply and the next with an error, and the
\* interface is idle again
C29_Witness ==
  /\ ~ui.isLoading
  /\ Len(ui.messages) = 4
  /\ ui.messages[1].role = "user"
  /\ ui.messages[2].role = "assistant"
  /\ ~ui.messages[2].isError
  /\ ui.messages[3].role = "user"
  /\ ui.messages[4].isError
  /\ ~ui.outcome.ok

-------------------------------------------------------------------------------
(* Properties of the shutdown                                              *)

\* C30: on SIGTERM or SIGINT after the server has started, the process exits
\* with code 0 only after the HTTP server has closed and then the database and
\* then Redis have been disconnected; when a disconnect fails it exits with
\* code 1; an uncaught exception or unhandled rejection exits with code 1
\* without the graceful sequence.
C30_GracefulShutdown ==
  /\ [](/\ (server.exited /\ server.exitCode = 0) =>
             /\ Len(server.callbacks) >= 1
             /\ server.httpClosed
             /\ ~server.database
             /\ ~server.redis
             /\ server.error = ""
        /\ server.error # "" => (server.exited /\ server.exitCode = 1)
        /\ Len(server.callbacks) >= 1 =>
             server.pc \notin {"constructed", "database", "redis", "listening"})
  /\ [][ /\ (server.database /\ ~server'.database) => server.httpClosed
         /\ (server.redis /\ ~server'.redis) => (server.httpClosed /\ ~server.database)
         /\ (server.error = "" /\ server'.error \in ProcessErrors) =>
              /\ server'.exitCode = 1
              /\ server'.httpClosed = server.httpClosed
              /\ server'.database = server.database
              /\ server'.redis = server.redis
              /\ server'.callbacks = server.callbacks
         /\ server.exited => server' = server ]_vars

\* after serving a request the process got SIGTERM, closed the HTTP server,
\* disconnected both services and exited with 0
C30_Witness ==
  /\ server.exited
  /\ server.exitCode = 0
  /\ server.callbacks = <<[signal |-> "SIGTERM", pc |-> "done"]>>
  /\ server.httpClosed
  /\ ~server.database
  /\ ~server.redis
  /\ served >= 1
  /\ Len(messages) = 2

===============================================================================
